---- MODULE Spec2Model ----
(***************************************************************************)
(* Model of the code-agent background job (src/src/inngest/functions.ts)   *)
(* and of its helpers (src/src/inngest/utils.ts): sandbox creation, the    *)
(* history load, the agent network loop with its three tools and the       *)
(* onResponse hook, the two post-processing agents and the save-result     *)
(* step.                                                                   *)
(*                                                                         *)
(* Strings that the code inspects are sequences of tokens, so that         *)
(* String.includes is a real substring search.  The empty sequence is the  *)
(* empty string (falsy in the source language).                            *)
(***************************************************************************)
EXTENDS Integers, Sequences, FiniteSets, TLC

VARIABLES
    pc,               \* position of codeAgentFunction
    messages,         \* table Message of the project
    fragments,        \* table Fragment
    sandboxId,        \* result of step get-sandbox-id
    sandboxFs,        \* filesystem of the job's sandbox: path -> content
    written,          \* history: <<path, content>> pairs successfully written
    previousMessages, \* result of step get-previous-messages
    summary,          \* network.state.data.summary
    files,            \* network.state.data.files
    counter,          \* number of agent runs completed by the network
    loopState,        \* RUNNING / CONVERGED / EXHAUSTED
    result,           \* output of the current agent inference
    toolCalls,        \* tool calls of the current agent result: the tool's
                      \* name, what its handler returned, whether a sandbox
                      \* operation failed in it, and the buffers the terminal
                      \* callbacks had filled
    fragmentTitleOutput,
    responseOutput,
    agentRuns,        \* history: post-processing agents invoked so far
    isError,
    sandboxUrl,
    returned,         \* value returned by the job
    memo,             \* results of the steps that completed, kept by the
                      \* job runtime across re-executions
    reexecution,      \* a crash of the job is followed by a re-execution
    resume,           \* after a crash: the point the re-execution replays to
    sandboxes,        \* ids of the sandboxes created so far
    connected,        \* history: ids that getSandbox was called with
    timeout,          \* minutes until the job's sandbox expires
    sinceConnect,     \* history: minutes since the expiry was last set
    refreshed,        \* history: a reconnect has reset a run-down expiry
    \* the procedures that enqueue jobs
    consumedPoints,   \* Usage row of the user: points consumed in the window
    projects,         \* ids of the rows of table Project
    userTurns,        \* USER rows of table Message, by project id
    events,           \* code-agent/run events sent
    responses,        \* history: outcome of each request
    \* several jobs at once
    jobs,             \* per job: position, result of the model call, ids
    states,           \* the objects made by createState
    boxes,            \* filesystem of each sandbox
    stored,           \* rows of table Fragment written by the jobs
    \* MessagesContainer
    uiMessages,       \* data of the messages.getMany query
    activeFragment,   \* prop activeFragment: a fragment id, 0 for null
    lastAssistantMessageRef,  \* the ref: a fragment id, 0 for null
    uiEvent,          \* history: what happened last
    \* convertFilesToTreeItems
    treeFiles,        \* keys of the argument
    treeItems         \* result, <<>> before the call

\* what the job runtime keeps, and the bookkeeping of crashes
retryVars == <<memo, reexecution, resume>>
\* the sandbox provider
sandboxVars == <<sandboxes, connected, timeout, sinceConnect, refreshed>>

requestVars == <<consumedPoints, projects, userTurns, events, responses>>
jobsVars == <<jobs, states, boxes, stored>>
uiVars == <<uiMessages, activeFragment, lastAssistantMessageRef, uiEvent>>
treeVars == <<treeFiles, treeItems>>
\* what the code agent job of the first sections does not touch
extVars == <<requestVars, jobsVars, uiVars, treeVars>>
\* the code agent job
jobVars == <<pc, messages, fragments, sandboxId, sandboxFs, written,
             previousMessages, summary, files, counter, loopState, result,
             toolCalls, fragmentTitleOutput, responseOutput, agentRuns,
             isError, sandboxUrl, returned, retryVars, sandboxVars>>

vars == <<jobVars, extVars>>

----------------------------------------------------------------------------
(* Bounds of the model *)

\* largest number of Conversation Turns stored before the job starts
MaxPrior == 6
\* largest number of entries of one createOrUpdateFiles / readFiles call
MaxBatch == 2

Paths == {"app/page.tsx", "app/counter.tsx"}
Contents == {"v1", "v2"}
Commands == {"npm install", "ls"}

(* Program constants *)

\* createNetwork({ maxIter: 10 })
maxIter == 10
\* findMany({ take: 5 })
take == 5

\* the completion marker "<task_summary>"
Marker == <<"<", "task_summary", ">">>

EmptyFiles == [p \in {} |-> "v1"]

\* values of the source language, tagged with their typeof
Undefined == [type |-> "undefined", str |-> <<>>, files |-> EmptyFiles]
Str(s) == [type |-> "string", str |-> s, files |-> EmptyFiles]
Obj(f) == [type |-> "object", str |-> <<>>, files |-> f]

\* obj[key] = value
Put(obj, key, value) ==
    [k \in DOMAIN obj \cup {key} |-> IF k = key THEN value ELSE obj[k]]

----------------------------------------------------------------------------
(* Helpers for sequences and strings *)

\* String.prototype.includes
Includes(s, sub) ==
    \E i \in 1..(Len(s) - Len(sub) + 1) : SubSeq(s, i, i + Len(sub) - 1) = sub

\* sequences over S of length lo..hi
SeqsOf(S, lo, hi) == UNION {[1..n -> S] : n \in lo..hi}

\* Array.prototype.join("") of a sequence of strings
RECURSIVE Join(_)
Join(ss) == IF ss = <<>> THEN <<>> ELSE Head(ss) \o Join(Tail(ss))

\* Array.prototype.findLastIndex, given the indices that satisfy the
\* predicate; 0 stands for -1 (no element found)
FindLastIndex(hits) ==
    IF hits = {} THEN 0 ELSE CHOOSE i \in hits : \A j \in hits : j <= i

----------------------------------------------------------------------------
(* Agent messages (type Message of the agent framework) *)

StringContent(s) == [kind |-> "string", str |-> s, segs |-> <<>>]
ArrayContent(segs) == [kind |-> "array", str |-> <<>>, segs |-> segs]
NoContent == [kind |-> "undefined", str |-> <<>>, segs |-> <<>>]

NoTool == [name |-> "none", command |-> "", files |-> <<>>, paths |-> <<>>]
TerminalCall(c) ==
    [name |-> "terminal", command |-> c, files |-> <<>>, paths |-> <<>>]
WriteCall(b) ==
    [name |-> "createOrUpdateFiles", command |-> "", files |-> b, paths |-> <<>>]
ReadCall(ps) ==
    [name |-> "readFiles", command |-> "", files |-> <<>>, paths |-> ps]

TextMessage(s) ==
    [type |-> "text", role |-> "assistant", content |-> StringContent(s),
     tool |-> NoTool]
ArrayTextMessage(segs) ==
    [type |-> "text", role |-> "assistant", content |-> ArrayContent(segs),
     tool |-> NoTool]
ToolCallMessage(t) ==
    [type |-> "tool_call", role |-> "assistant", content |-> NoContent,
     tool |-> t]

\* texts the model may answer with
Texts == {<<>>, <<"ok">>, Marker, <<"done", "<", "task_summary", ">">>,
          <<"<", "task_summary">>}

FileEntries == [path : Paths, content : Contents]
Batches == SeqsOf(FileEntries, 1, MaxBatch)
PathLists == SeqsOf(Paths, 1, MaxBatch)

ToolCalls ==
    {TerminalCall(c) : c \in Commands}
        \cup {WriteCall(b) : b \in Batches}
        \cup {ReadCall(ps) : ps \in PathLists}

\* tool calls with one entry
SingleCalls ==
    {TerminalCall(c) : c \in Commands}
        \cup {WriteCall(<<e>>) : e \in FileEntries}
        \cup {ReadCall(<<q>>) : q \in Paths}

\* outputs of one inference of the code agent: nothing, a text, a tool
\* call, or a text with the marker followed by a tool call
AgentOutputs ==
    {<<>>}
        \cup {<<TextMessage(s)>> : s \in Texts}
        \cup {<<ArrayTextMessage(<<[type |-> "text", text |-> <<"done">>],
                                   [type |-> "text", text |-> Marker]>>)>>}
        \cup {<<ToolCallMessage(t)>> : t \in ToolCalls}
        \cup {<<TextMessage(Marker), ToolCallMessage(t)>> : t \in SingleCalls}

\* outputs of one run of a post-processing agent
PostOutputs ==
    {<<>>,
     <<TextMessage(<<"text">>)>>,
     <<ArrayTextMessage(<<[type |-> "text", text |-> <<"text">>]>>)>>,
     <<ToolCallMessage(TerminalCall("ls"))>>}

----------------------------------------------------------------------------
(* src/src/inngest/utils.ts *)

lastAgentResponse(output) ==
    LET lastAgentResponseIndex ==
            FindLastIndex({i \in 1..Len(output) : output[i].role = "assistant"})
    IN  IF lastAgentResponseIndex = 0
        THEN Undefined
        ELSE LET message == output[lastAgentResponseIndex]
             IN  IF message.content.kind = "undefined"
                    \/ (message.content.kind = "string"
                        /\ message.content.str = <<>>)
                 THEN Undefined
                 ELSE IF message.content.kind = "string"
                 THEN Str(message.content.str)
                 ELSE Str(Join([i \in 1..Len(message.content.segs) |->
                                    message.content.segs[i].text]))

\* the result is [threw |-> TRUE] when output[0] is undefined
extractTextContent(output, fallback) ==
    IF output = <<>>
    THEN [threw |-> TRUE, value |-> <<>>]
    ELSE IF output[1].type # "text"
    THEN [threw |-> FALSE, value |-> fallback]
    ELSE IF output[1].content.kind = "array"
    THEN [threw |-> FALSE,
          value |-> Join([i \in 1..Len(output[1].content.segs) |->
                              <<"[object Object]">>])]
    ELSE [threw |-> FALSE, value |-> output[1].content.str]

----------------------------------------------------------------------------
(* Tools of the code agent, src/src/inngest/functions.ts *)

\* state a tool handler works on
ToolState(f, fs, w) == [files |-> f, fs |-> fs, written |-> w, threw |-> FALSE]

\* mutant: the merge into updatedFiles comes before the write
WriteFileMergeFirst(st, file, fails) ==
    IF fails
    THEN [st EXCEPT !.files = Put(st.files, file.path, file.content),
                    !.threw = TRUE]
    ELSE [files   |-> Put(st.files, file.path, file.content),
          fs      |-> Put(st.fs, file.path, file.content),
          written |-> st.written \cup {<<file.path, file.content>>},
          threw   |-> FALSE]

\* mutant: a path already in updatedFiles keeps its first content
WriteFileKeepFirst(st, file, fails) ==
    IF fails
    THEN [st EXCEPT !.threw = TRUE]
    ELSE [files   |-> IF file.path \in DOMAIN st.files THEN st.files
                      ELSE Put(st.files, file.path, file.content),
          fs      |-> Put(st.fs, file.path, file.content),
          written |-> st.written \cup {<<file.path, file.content>>},
          threw   |-> FALSE]

\* mutant: the content is appended to what the path already holds
WriteFileAppend(st, file, fails) ==
    IF fails
    THEN [st EXCEPT !.threw = TRUE]
    ELSE [files   |-> Put(st.files, file.path,
                          IF file.path \in DOMAIN st.files
                          THEN st.files[file.path] \o file.content
                          ELSE file.content),
          fs      |-> Put(st.fs, file.path, file.content),
          written |-> st.written \cup {<<file.path, file.content>>},
          threw   |-> FALSE]

\* createOrUpdateFiles, body of the for loop: sandbox.files.write, then the
\* merge into updatedFiles (which is the object network.state.data.files)
WriteFile(st, file, fails) ==
    IF fails
    THEN [st EXCEPT !.threw = TRUE]
    ELSE [files   |-> Put(st.files, file.path, file.content),
          fs      |-> Put(st.fs, file.path, file.content),
          written |-> st.written \cup {<<file.path, file.content>>},
          threw   |-> FALSE]

\* createOrUpdateFiles, the for loop; failAt = 0: no write fails
RECURSIVE WriteFiles(_, _, _, _)
WriteFiles(batch, i, failAt, st) ==
    IF i > Len(batch)
    THEN st
    ELSE LET next == WriteFile(st, batch[i], i = failAt)
         IN  IF next.threw THEN next
             ELSE WriteFiles(batch, i + 1, failAt, next)

\* minutes of idle time a sandbox is given by setTimeout
SANDBOX_TIMEOUT == 30

\* mutant: connect without setTimeout
getSandboxNoRefresh(id, connectOk, remaining) ==
    [id |-> id, ok |-> connectOk, timeout |-> remaining]

\* getSandbox: Sandbox.connect(sandboxId), then setTimeout(SANDBOX_TIMEOUT);
\* remaining is the idle time the sandbox has left when it is called
getSandbox(id, connectOk, remaining) ==
    [id |-> id, ok |-> connectOk,
     timeout |-> IF connectOk THEN SANDBOX_TIMEOUT ELSE remaining]

\* createOrUpdateFiles handler.  The step callback returns updatedFiles or
\* "Error: " + error; the handler assigns an object result to
\* network.state.data.files and returns nothing.
createOrUpdateFiles(batch, connectOk, failAt, st) ==
    LET after == IF connectOk
                 THEN WriteFiles(batch, 1, failAt, st)
                 ELSE [st EXCEPT !.threw = TRUE]
        newFiles == IF after.threw
                    THEN Str(<<"Error: ", "sandbox">>)
                    ELSE Obj(after.files)
    IN  [ret      |-> Undefined,
         newFiles |-> newFiles,
         files    |-> IF newFiles.type = "object"
                      THEN newFiles.files ELSE after.files,
         fs       |-> after.fs,
         written  |-> after.written,
         failed   |-> after.threw]

\* mutant: the error string leaves out the captured stdout
terminalStderrOnly(command, ok, stdout, stderr) ==
    IF ok
    THEN Str(stdout)
    ELSE Str(<<"Command failed: ", "error", " \nstderr: ">> \o stderr)

\* terminal handler.  ok = FALSE: getSandbox or commands.run threw after
\* the callbacks had filled the buffers with stdout and stderr.
terminal(command, ok, stdout, stderr) ==
    IF ok
    THEN Str(stdout)
    ELSE Str(<<"Command failed: ", "error", " \nstdout: ">> \o stdout
             \o <<" \nstderr: ">> \o stderr)

\* JSON.stringify of an array of {path, content}
JsonStringify(contents) ==
    <<"[">> \o Join([i \in 1..Len(contents) |->
                       <<"{", contents[i].path, contents[i].content, "}">>])
        \o <<"]">>

\* mutant: a path that cannot be read is skipped
RECURSIVE ReadLoopSkipMissing(_, _, _, _, _)
ReadLoopSkipMissing(paths, i, failAt, fs, contents) ==
    IF i > Len(paths)
    THEN [threw |-> FALSE, contents |-> contents]
    ELSE IF i = failAt \/ paths[i] \notin DOMAIN fs
    THEN ReadLoopSkipMissing(paths, i + 1, failAt, fs, contents)
    ELSE ReadLoopSkipMissing(paths, i + 1, failAt, fs,
             Append(contents, [path |-> paths[i], content |-> fs[paths[i]]]))

\* readFiles, the for loop; a read throws for a path that does not exist
\* and for the failAt-th read
RECURSIVE ReadLoop(_, _, _, _, _)
ReadLoop(paths, i, failAt, fs, contents) ==
    IF i > Len(paths)
    THEN [threw |-> FALSE, contents |-> contents]
    ELSE IF i = failAt \/ paths[i] \notin DOMAIN fs
    THEN [threw |-> TRUE, contents |-> contents]
    ELSE ReadLoop(paths, i + 1, failAt, fs,
                  Append(contents, [path |-> paths[i], content |-> fs[paths[i]]]))

\* readFiles handler
readFiles(paths, connectOk, failAt, fs) ==
    LET r == IF connectOk
             THEN ReadLoop(paths, 1, failAt, fs, <<>>)
             ELSE [threw |-> TRUE, contents |-> <<>>]
    IN  [ret    |-> IF r.threw THEN Str(<<"Error: ", "sandbox">>)
                    ELSE Str(JsonStringify(r.contents)),
         failed |-> r.threw]

----------------------------------------------------------------------------
(* Agent and network, src/src/inngest/functions.ts *)

\* mutant: the hook stores every non-empty response
onResponseAnyText(output, sum) ==
    LET lastResponse == lastAgentResponse(output)
    IN  IF lastResponse.type = "string" /\ lastResponse.str # <<>>
        THEN lastResponse.str
        ELSE sum

\* lifecycle.onResponse: the new value of network.state.data.summary
onResponse(output, sum) ==
    LET lastResponse == lastAgentResponse(output)
    IN  IF lastResponse.type = "string" /\ lastResponse.str # <<>>
           /\ Includes(lastResponse.str, Marker)
        THEN lastResponse.str
        ELSE sum

\* mutant: the router ignores the summary
routerAlwaysAgent(sum) == "codeAgent"

\* router of the network: the agent to run next, "none" for no agent
router(sum) == IF sum # <<>> THEN "none" ELSE "codeAgent"

\* mutant: the ceiling is checked before the router is asked
NetworkPassCeilingFirst(sum, cnt) ==
    IF cnt >= maxIter THEN "EXHAUSTED"
    ELSE IF router(sum) = "none" THEN "CONVERGED"
    ELSE "RUNNING"

\* mutant: the ceiling test is off by one
NetworkPassOffByOne(sum, cnt) ==
    IF router(sum) = "none" THEN "CONVERGED"
    ELSE IF cnt > maxIter THEN "EXHAUSTED"
    ELSE "RUNNING"

\* one pass of the network loop: the router is asked first, then the
\* scheduled agent runs only while the counter is below maxIter
NetworkPass(sum, cnt) ==
    IF router(sum) = "none" THEN "CONVERGED"
    ELSE IF cnt >= maxIter THEN "EXHAUSTED"
    ELSE "RUNNING"

\* the tool call of an agent output, NoTool when it has none
ToolCallOf(output) ==
    LET idx == FindLastIndex({i \in 1..Len(output) :
                                  output[i].type = "tool_call"})
    IN  IF idx = 0 THEN NoTool ELSE output[idx].tool

----------------------------------------------------------------------------
(* Storage: tables Message and Fragment *)

\* Conversation Turns stored before the job starts, the latest one being
\* the USER turn that enqueued the job; every earlier ASSISTANT turn is a
\* RESULT of an earlier job and owns a Fragment
PriorRole(i, n) == IF (n - i) % 2 = 0 THEN "USER" ELSE "ASSISTANT"

PriorMessages(n) ==
    {[id |-> i, createdAt |-> i, role |-> PriorRole(i, n), type |-> "RESULT",
      content |-> <<"turn", ToString(i)>>] : i \in 1..n}

PriorFragments(n) ==
    {[messageId |-> i, sandboxUrl |-> <<"https://", "old-host">>,
      title |-> <<"Fragment">>, files |-> Put(EmptyFiles, "app/page.tsx", "v1")] :
        i \in {j \in 1..n : PriorRole(j, n) = "ASSISTANT"}}

\* the rows of a table ordered by createdAt
RECURSIVE OrderByCreatedAt(_, _)
OrderByCreatedAt(rows, dir) ==
    IF rows = {} THEN <<>>
    ELSE LET first == CHOOSE r \in rows : \A q \in rows :
                          IF dir = "asc" THEN r.createdAt <= q.createdAt
                                         ELSE r.createdAt >= q.createdAt
         IN  <<first>> \o OrderByCreatedAt(rows \ {first}, dir)

\* prisma.message.findMany({ where, orderBy: { createdAt }, take })
findMany(rows, dir, n) ==
    LET ordered == OrderByCreatedAt(rows, dir)
    IN  SubSeq(ordered, 1, IF Len(ordered) < n THEN Len(ordered) ELSE n)

\* step get-previous-messages
getPreviousMessages(rows) ==
    LET found == findMany(rows, "asc", take)
    IN  [i \in 1..Len(found) |->
            [type |-> "text",
             role |-> IF found[i].role = "ASSISTANT" THEN "assistant" ELSE "user",
             content |-> found[i].content]]

\* mutant: isError looks at the summary only
IsErrorSummaryOnly(sum, f) == sum = <<>>

\* const isError
IsError(sum, f) == sum = <<>> \/ DOMAIN f = {}

ErrorContent ==
    <<"The agent was unable to complete the task within the maximum iterations.">>
ResponseFallback ==
    <<"The agent was unable to generate a response. Please try again.">>
TitleFallback == <<"Fragment">>

\* mutant: the error branch creates a fragment too
saveResultFragmentAlways(msgs, frags, err, respOut, titleOut, url, f) ==
    LET id == Cardinality(msgs) + 1
        content == extractTextContent(respOut, <<"fallback">>)
        title == extractTextContent(titleOut, <<"Fragment">>)
    IN  IF content.threw \/ title.threw
        THEN [threw |-> TRUE, messages |-> msgs, fragments |-> frags]
        ELSE [threw |-> FALSE,
              messages |-> msgs \cup
                  {[id |-> id, createdAt |-> id, role |-> "ASSISTANT",
                    type |-> IF err THEN "ERROR" ELSE "RESULT",
                    content |-> content.value]},
              fragments |-> frags \cup
                  {[messageId |-> id, sandboxUrl |-> url,
                    title |-> title.value, files |-> f]}]

\* mutant: the fragment is stored without the files
saveResultNoFiles(msgs, frags, err, respOut, titleOut, url, f) ==
    LET id == Cardinality(msgs) + 1
        content == extractTextContent(respOut, <<"fallback">>)
        title == extractTextContent(titleOut, <<"Fragment">>)
    IN  IF err
        THEN [threw |-> FALSE,
              messages |-> msgs \cup
                  {[id |-> id, createdAt |-> id, role |-> "ASSISTANT",
                    type |-> "ERROR", content |-> <<"error">>]},
              fragments |-> frags]
        ELSE IF content.threw \/ title.threw
        THEN [threw |-> TRUE, messages |-> msgs, fragments |-> frags]
        ELSE [threw |-> FALSE,
              messages |-> msgs \cup
                  {[id |-> id, createdAt |-> id, role |-> "ASSISTANT",
                    type |-> "RESULT", content |-> content.value]},
              fragments |-> frags \cup
                  {[messageId |-> id, sandboxUrl |-> url,
                    title |-> title.value, files |-> EmptyFiles]}]

\* step save-result: one prisma.message.create, with a nested fragment
\* create on the success branch
saveResult(msgs, frags, err, respOut, titleOut, url, f) ==
    LET id == Cardinality(msgs) + 1
        content == extractTextContent(respOut, ResponseFallback)
        title == extractTextContent(titleOut, TitleFallback)
    IN  IF err
        THEN [threw |-> FALSE,
              messages |-> msgs \cup
                  {[id |-> id, createdAt |-> id, role |-> "ASSISTANT",
                    type |-> "ERROR", content |-> ErrorContent]},
              fragments |-> frags]
        ELSE IF content.threw \/ title.threw
        THEN [threw |-> TRUE, messages |-> msgs, fragments |-> frags]
        ELSE [threw |-> FALSE,
              messages |-> msgs \cup
                  {[id |-> id, createdAt |-> id, role |-> "ASSISTANT",
                    type |-> "RESULT", content |-> content.value]},
              fragments |-> frags \cup
                  {[messageId |-> id, sandboxUrl |-> url,
                    title |-> title.value, files |-> f]}]

----------------------------------------------------------------------------
(* codeAgentFunction *)

TemplateFs == Put(EmptyFiles, "app/page.tsx", "v0")

\* the id Sandbox.create gives the next sandbox
FreshId(ids) == "sbx-" \o ToString(Cardinality(ids) + 1)

\* mutant: the sandbox is created outside a step, on every execution
getSandboxIdNoStep(m, fresh) ==
    [id |-> fresh, created |-> TRUE]

\* step.run("get-sandbox-id", ...): a step that completed returns its
\* memoized id, otherwise the callback creates a sandbox
getSandboxId(m, fresh) ==
    IF "get-sandbox-id" \in m.done
    THEN [id |-> m.sandboxId, created |-> FALSE]
    ELSE [id |-> fresh, created |-> TRUE]

\* nothing memoized yet: done holds the names of the completed steps of
\* the function body, files the last object a createOrUpdateFiles step
\* returned.  Only a re-execution reads files: it is kept when crashes
\* are followed.
NoMemo ==
    [done |-> {}, sandboxId |-> "none", previousMessages |-> <<>>,
     sandboxUrl |-> <<>>, files |-> EmptyFiles]

\* no replay pending
NoResume ==
    [pc |-> "none", summary |-> <<>>, counter |-> 0, loopState |-> "RUNNING",
     result |-> <<>>, toolCalls |-> <<>>, fragmentTitleOutput |-> <<>>,
     responseOutput |-> <<>>]

\* turns and fragments stored before the job started
StoredTurns == UNION {PriorMessages(n) : n \in 1..MaxPrior}
StoredFragments == UNION {PriorFragments(n) : n \in 1..MaxPrior}
\* turns and fragments appended by the job
JobTurns == messages \ StoredTurns
JobFragments == fragments \ StoredFragments

\* the code agent job starts: n turns are stored; re: crashes are followed
StartJob(n, re) ==
    /\ pc = "get-sandbox-id"
    /\ messages = PriorMessages(n)
    /\ fragments = PriorFragments(n)
    /\ sandboxId = "none"
    /\ sandboxFs = EmptyFiles
    /\ written = {}
    /\ previousMessages = <<>>
    /\ summary = <<>>
    /\ files = EmptyFiles
    /\ counter = 0
    /\ loopState = "RUNNING"
    /\ result = <<>>
    /\ toolCalls = <<>>
    /\ fragmentTitleOutput = <<>>
    /\ responseOutput = <<>>
    /\ agentRuns = {}
    /\ isError = FALSE
    /\ sandboxUrl = <<>>
    /\ returned = Undefined
    /\ memo = NoMemo
    /\ reexecution = re
    /\ resume = NoResume
    /\ sandboxes = {}
    /\ connected = {}
    /\ timeout = 0
    /\ sinceConnect = 0
    /\ refreshed = FALSE

\* no request yet
NoRequests ==
    /\ consumedPoints = 0
    /\ projects = {}
    /\ userTurns = {}
    /\ events = {}
    /\ responses = <<>>

\* no job of the several yet
NoJobs ==
    /\ jobs = <<>>
    /\ states = <<>>
    /\ boxes = <<>>
    /\ stored = {}

\* MessagesContainer before its first data
NoUi ==
    /\ uiMessages = <<>>
    /\ activeFragment = 0
    /\ lastAssistantMessageRef = 0
    /\ uiEvent = "none"

\* no call of convertFilesToTreeItems
NoTree ==
    /\ treeFiles = {}
    /\ treeItems = [called |-> FALSE, items |-> <<>>]

\* one code agent job, nothing else
Start(n, re) ==
    /\ StartJob(n, re)
    /\ NoRequests
    /\ NoJobs
    /\ NoUi
    /\ NoTree

Init == \E n \in 1..MaxPrior : Start(n, FALSE)

\* step get-sandbox-id: Sandbox.create; a failed creation fails the job
GetSandboxId ==
    /\ pc = "get-sandbox-id"
    /\ LET r == getSandboxId(memo, FreshId(sandboxes))
       IN  IF r.created
           THEN \E ok \in BOOLEAN :
                   IF ok
                   THEN /\ sandboxId' = r.id
                        /\ sandboxFs' = TemplateFs
                        /\ sandboxes' = sandboxes \cup {r.id}
                        /\ timeout' = SANDBOX_TIMEOUT
                        /\ sinceConnect' = 0
                        /\ memo' = [memo EXCEPT
                                       !.done = @ \cup {"get-sandbox-id"},
                                       !.sandboxId = r.id]
                        /\ pc' = "get-previous-messages"
                   ELSE /\ pc' = "failed"
                        /\ UNCHANGED <<sandboxId, sandboxFs, sandboxes,
                                       timeout, sinceConnect, memo>>
           ELSE /\ sandboxId' = r.id
                /\ pc' = "get-previous-messages"
                /\ UNCHANGED <<sandboxFs, sandboxes, timeout, sinceConnect,
                               memo>>
    /\ UNCHANGED <<messages, fragments, written, previousMessages, summary,
                   files, counter, loopState, result, toolCalls,
                   fragmentTitleOutput, responseOutput, agentRuns, isError,
                   sandboxUrl, returned, reexecution, resume, connected,
                   refreshed>>
    /\ UNCHANGED extVars

\* step get-previous-messages; a re-execution takes the memoized rows
GetPreviousMessages ==
    /\ pc = "get-previous-messages"
    /\ IF "get-previous-messages" \in memo.done
       THEN /\ previousMessages' = memo.previousMessages
            /\ UNCHANGED memo
       ELSE /\ previousMessages' = getPreviousMessages(messages)
            /\ memo' = [memo EXCEPT
                           !.done = @ \cup {"get-previous-messages"},
                           !.previousMessages = previousMessages']
    /\ pc' = "createState"
    /\ UNCHANGED <<messages, fragments, sandboxId, sandboxFs, written,
                   summary, files, counter, loopState, result, toolCalls,
                   fragmentTitleOutput, responseOutput, agentRuns, isError,
                   sandboxUrl, returned, reexecution, resume, sandboxVars>>
    /\ UNCHANGED extVars

\* createState({ summary: "", files: {} }, { messages }) and network.run
CreateState ==
    /\ pc = "createState"
    /\ summary' = <<>>
    /\ files' = EmptyFiles
    /\ counter' = 0
    /\ loopState' = "RUNNING"
    /\ pc' = "router"
    /\ UNCHANGED <<messages, fragments, sandboxId, sandboxFs, written,
                   previousMessages, result, toolCalls, fragmentTitleOutput,
                   responseOutput, agentRuns, isError, sandboxUrl, returned,
                   retryVars, sandboxVars>>
    /\ UNCHANGED extVars

\* one pass of the network loop; when the loop ends network.run returns
\* and the job goes on with result.state only
Router ==
    /\ pc = "router"
    /\ resume.pc = "none"
    /\ loopState' = NetworkPass(summary, counter)
    /\ pc' = IF loopState' = "RUNNING" THEN "infer" ELSE "title-agent"
    /\ toolCalls' = IF loopState' = "RUNNING" THEN toolCalls ELSE <<>>
    /\ UNCHANGED <<messages, fragments, sandboxId, sandboxFs, written,
                   previousMessages, summary, files, counter, result,
                   fragmentTitleOutput, responseOutput, agentRuns, isError,
                   sandboxUrl, returned,
                   retryVars, sandboxVars>>
    /\ UNCHANGED extVars

\* the model call of one agent run
Infer ==
    /\ pc = "infer"
    /\ result' \in AgentOutputs
    /\ toolCalls' = <<>>
    /\ pc' = "onResponse"
    /\ UNCHANGED <<messages, fragments, sandboxId, sandboxFs, written,
                   previousMessages, summary, files, counter, loopState,
                   fragmentTitleOutput, responseOutput, agentRuns, isError,
                   sandboxUrl, returned,
                   retryVars, sandboxVars>>
    /\ UNCHANGED extVars

\* lifecycle.onResponse, run on the result before its tools are invoked
OnResponse ==
    /\ pc = "onResponse"
    /\ summary' = onResponse(result, summary)
    /\ pc' = "invokeTools"
    /\ UNCHANGED <<messages, fragments, sandboxId, sandboxFs, written,
                   previousMessages, files, counter, loopState, result,
                   toolCalls, fragmentTitleOutput, responseOutput, agentRuns,
                   isError, sandboxUrl, returned,
                   retryVars, sandboxVars>>
    /\ UNCHANGED extVars

\* one call getSandbox(sandboxId) as the sandbox provider sees it: an
\* expired sandbox cannot be connected to
Connect(connectOk) ==
    LET s == getSandbox(sandboxId, connectOk, timeout)
    IN  /\ connectOk => timeout > 0
        /\ connected' = connected \cup {s.id}
        /\ timeout' = s.timeout
        /\ sinceConnect' = IF connectOk THEN 0 ELSE sinceConnect
        /\ refreshed' = (refreshed \/ (connectOk /\ timeout < SANDBOX_TIMEOUT))
        /\ UNCHANGED sandboxes

\* the agent run ends: the network counts it and asks the router again
EndAgentRun ==
    /\ counter' = counter + 1
    /\ result' = <<>>
    /\ pc' = "router"

\* an output without tool call
NoToolCall ==
    /\ pc = "invokeTools"
    /\ ToolCallOf(result).name = "none"
    /\ EndAgentRun
    /\ UNCHANGED <<messages, fragments, sandboxId, sandboxFs, written,
                   previousMessages, summary, files, loopState, toolCalls,
                   fragmentTitleOutput, responseOutput, agentRuns, isError,
                   sandboxUrl, returned,
                   retryVars, sandboxVars>>
    /\ UNCHANGED extVars

Terminal ==
    /\ pc = "invokeTools"
    /\ ToolCallOf(result).name = "terminal"
    /\ \E connectOk \in BOOLEAN, ok \in BOOLEAN, stdout \in {<<>>, <<"out">>},
          stderr \in {<<>>, <<"err">>} :
          /\ ok => connectOk
          /\ Connect(connectOk)
          /\ toolCalls' =
              <<[name |-> "terminal",
                 ret |-> terminal(ToolCallOf(result).command, ok, stdout, stderr),
                 failed |-> ~ok, stdout |-> stdout, stderr |-> stderr]>>
    /\ EndAgentRun
    /\ UNCHANGED <<messages, fragments, sandboxId, sandboxFs, written,
                   previousMessages, summary, files, loopState,
                   fragmentTitleOutput, responseOutput, agentRuns, isError,
                   sandboxUrl, returned, retryVars>>
    /\ UNCHANGED extVars

CreateOrUpdateFiles ==
    /\ pc = "invokeTools"
    /\ ToolCallOf(result).name = "createOrUpdateFiles"
    /\ LET batch == ToolCallOf(result).files
       IN  \E connectOk \in BOOLEAN, failAt \in 0..Len(batch) :
              LET r == createOrUpdateFiles(batch, connectOk, failAt,
                                           ToolState(files, sandboxFs, written))
              IN  /\ Connect(connectOk)
                  /\ files' = r.files
                  /\ sandboxFs' = r.fs
                  /\ written' = r.written
                  /\ memo' = IF r.newFiles.type = "object" /\ reexecution
                             THEN [memo EXCEPT !.files = r.newFiles.files]
                             ELSE memo
                  /\ toolCalls' = <<[name |-> "createOrUpdateFiles",
                                      ret |-> r.ret, failed |-> r.failed,
                                      stdout |-> <<>>, stderr |-> <<>>]>>
    /\ EndAgentRun
    /\ UNCHANGED <<messages, fragments, sandboxId, previousMessages, summary,
                   loopState, fragmentTitleOutput, responseOutput, agentRuns,
                   isError, sandboxUrl, returned, reexecution, resume>>
    /\ UNCHANGED extVars

ReadFiles ==
    /\ pc = "invokeTools"
    /\ ToolCallOf(result).name = "readFiles"
    /\ LET paths == ToolCallOf(result).paths
       IN  \E connectOk \in BOOLEAN, failAt \in 0..Len(paths) :
              LET r == readFiles(paths, connectOk, failAt, sandboxFs)
              IN  /\ Connect(connectOk)
                  /\ toolCalls' = <<[name |-> "readFiles", ret |-> r.ret,
                                      failed |-> r.failed,
                                      stdout |-> <<>>, stderr |-> <<>>]>>
    /\ EndAgentRun
    /\ UNCHANGED <<messages, fragments, sandboxId, sandboxFs, written,
                   previousMessages, summary, files, loopState,
                   fragmentTitleOutput, responseOutput, agentRuns, isError,
                   sandboxUrl, returned, retryVars>>
    /\ UNCHANGED extVars

\* fragmentTitleGenerator.run(result.state.data.summary)
FragmentTitleGenerator ==
    /\ pc = "title-agent"
    /\ fragmentTitleOutput' \in PostOutputs
    /\ agentRuns' = agentRuns \cup {"fragment-title-generator"}
    /\ pc' = "response-agent"
    /\ UNCHANGED <<messages, fragments, sandboxId, sandboxFs, written,
                   previousMessages, summary, files, counter, loopState,
                   result, toolCalls, responseOutput, isError, sandboxUrl,
                   returned,
                   retryVars, sandboxVars>>
    /\ UNCHANGED extVars

\* responseGenerator.run(result.state.data.summary), then const isError
ResponseGenerator ==
    /\ pc = "response-agent"
    /\ responseOutput' \in PostOutputs
    /\ agentRuns' = agentRuns \cup {"response-generator"}
    /\ isError' = IsError(summary, files)
    /\ pc' = "get-sandbox-url"
    /\ UNCHANGED <<messages, fragments, sandboxId, sandboxFs, written,
                   previousMessages, summary, files, counter, loopState,
                   result, toolCalls, fragmentTitleOutput, sandboxUrl,
                   returned,
                   retryVars, sandboxVars>>
    /\ UNCHANGED extVars

\* step get-sandbox-url: getSandbox and getHost(3000); a failed connect
\* fails the job; a re-execution takes the memoized url
GetSandboxUrl ==
    /\ pc = "get-sandbox-url"
    /\ IF "get-sandbox-url" \in memo.done
       THEN /\ sandboxUrl' = memo.sandboxUrl
            /\ pc' = "save-result"
            /\ UNCHANGED <<memo, sandboxVars>>
       ELSE \E connectOk \in BOOLEAN :
               /\ Connect(connectOk)
               /\ IF connectOk
                  THEN /\ sandboxUrl' = <<"https://", "3000-" \o sandboxId>>
                       /\ memo' = [memo EXCEPT
                                      !.done = @ \cup {"get-sandbox-url"},
                                      !.sandboxUrl = sandboxUrl']
                       /\ pc' = "save-result"
                  ELSE /\ pc' = "failed"
                       /\ UNCHANGED <<sandboxUrl, memo>>
    /\ UNCHANGED <<messages, fragments, sandboxId, sandboxFs, written,
                   previousMessages, summary, files, counter, loopState,
                   result, toolCalls, fragmentTitleOutput, responseOutput,
                   agentRuns, isError, returned, reexecution, resume>>
    /\ UNCHANGED extVars

\* step save-result; extractTextContent throwing fails the job; a
\* re-execution that finds the step completed does not run it
SaveResult ==
    /\ pc = "save-result"
    /\ IF "save-result" \in memo.done
       THEN /\ pc' = "return"
            /\ UNCHANGED <<messages, fragments, memo>>
       ELSE LET r == saveResult(messages, fragments, isError, responseOutput,
                                fragmentTitleOutput, sandboxUrl, files)
            IN  /\ messages' = r.messages
                /\ fragments' = r.fragments
                /\ memo' = IF r.threw
                           THEN memo
                           ELSE [memo EXCEPT !.done = @ \cup {"save-result"}]
                /\ pc' = IF r.threw THEN "failed" ELSE "return"
    /\ UNCHANGED <<sandboxId, sandboxFs, written, previousMessages, summary,
                   files, counter, loopState, result, toolCalls,
                   fragmentTitleOutput, responseOutput, agentRuns, isError,
                   sandboxUrl, returned, reexecution, resume, sandboxVars>>
    /\ UNCHANGED extVars

\* mutant: on the error branch the descriptor holds defaults
returnValueDefaultsOnError(url, f, sum) ==
    IF IsError(sum, f)
    THEN [type |-> "object", url |-> url, title |-> <<"Fragment">>,
          files |-> EmptyFiles, summary |-> <<>>]
    ELSE [type |-> "object", url |-> url, title |-> <<"Fragment">>,
          files |-> f, summary |-> sum]

\* return { url, title: "Fragment", files, summary }
returnValue(url, f, sum) ==
    [type |-> "object", url |-> url, title |-> <<"Fragment">>, files |-> f,
     summary |-> sum]

Return ==
    /\ pc = "return"
    /\ returned' = returnValue(sandboxUrl, files, summary)
    /\ pc' = "done"
    /\ UNCHANGED <<messages, fragments, sandboxId, sandboxFs, written,
                   previousMessages, summary, files, counter, loopState,
                   result, toolCalls, fragmentTitleOutput, responseOutput,
                   agentRuns, isError, sandboxUrl,
                   retryVars, sandboxVars>>
    /\ UNCHANGED extVars

Next ==
    \/ GetSandboxId
    \/ GetPreviousMessages
    \/ CreateState
    \/ Router
    \/ Infer
    \/ OnResponse
    \/ NoToolCall
    \/ Terminal
    \/ CreateOrUpdateFiles
    \/ ReadFiles
    \/ FragmentTitleGenerator
    \/ ResponseGenerator
    \/ GetSandboxUrl
    \/ SaveResult
    \/ Return

Spec == Init /\ [][Next]_vars

----------------------------------------------------------------------------
(* Crash and re-execution of the job *)

\* turns that a crash inside save-result may leave behind
MaxLostSaves == 1
\* inside the loop the crashes that are followed fall within the first
\* MaxCrashRun + 1 agent runs
MaxCrashRun == 1

\* positions before network.run
PreLoop == {"get-sandbox-id", "get-previous-messages", "createState"}

\* The worker is lost with all the function held in memory, and the
\* runtime executes the function body again from its first line.  resume
\* is the point the job had reached: up to there the model calls and the
\* completed steps answer from their memo.
Restart ==
    /\ reexecution
    /\ resume' = IF resume.pc # "none" THEN resume
                 ELSE IF pc \in PreLoop THEN NoResume
                 ELSE [pc |-> pc, summary |-> summary, counter |-> counter,
                       loopState |-> loopState, result |-> result,
                       toolCalls |-> toolCalls,
                       fragmentTitleOutput |-> fragmentTitleOutput,
                       responseOutput |-> responseOutput]
    /\ pc' = "get-sandbox-id"
    /\ sandboxId' = "none"
    /\ previousMessages' = <<>>
    /\ summary' = <<>>
    /\ files' = EmptyFiles
    /\ counter' = 0
    /\ loopState' = "RUNNING"
    /\ result' = <<>>
    /\ toolCalls' = <<>>
    /\ fragmentTitleOutput' = <<>>
    /\ responseOutput' = <<>>
    /\ isError' = FALSE
    /\ sandboxUrl' = <<>>
    /\ UNCHANGED <<agentRuns, returned, reexecution>>

\* a crash outside a step: after get-sandbox-id, between two agent runs,
\* or after the loop.  A crash at another position loses the same memory;
\* the crashes inside a step are the actions below.
Crash ==
    /\ pc \in {"get-previous-messages", "router", "title-agent"}
    /\ pc = "router" => counter <= MaxCrashRun
    /\ Restart
    /\ UNCHANGED <<messages, fragments, sandboxFs, written, memo, sandboxVars>>
    /\ UNCHANGED extVars

\* a crash in step createOrUpdateFiles after n of its writes
CreateOrUpdateFilesLost ==
    /\ pc = "invokeTools"
    /\ counter <= MaxCrashRun
    /\ ToolCallOf(result).name = "createOrUpdateFiles"
    /\ LET batch == ToolCallOf(result).files
       IN  \E n \in 0..Len(batch) :
              LET r == createOrUpdateFiles(SubSeq(batch, 1, n), TRUE, 0,
                                           ToolState(files, sandboxFs, written))
              IN  /\ sandboxFs' = r.fs
                  /\ written' = r.written
    /\ Connect(TRUE)
    /\ Restart
    /\ UNCHANGED <<messages, fragments, memo>>
    /\ UNCHANGED extVars

\* a crash in step save-result after prisma.message.create: the turn is
\* stored, the step has no memo
SaveResultLost ==
    /\ pc = "save-result"
    /\ "save-result" \notin memo.done
    /\ Cardinality(JobTurns) < MaxLostSaves
    /\ LET r == saveResult(messages, fragments, isError, responseOutput,
                           fragmentTitleOutput, sandboxUrl, files)
       IN  /\ ~r.threw
           /\ messages' = r.messages
           /\ fragments' = r.fragments
    /\ Restart
    /\ UNCHANGED <<sandboxFs, written, memo, sandboxVars>>
    /\ UNCHANGED extVars

\* positions after const isError
PostError == {"get-sandbox-url", "save-result", "return"}

\* network.run of a re-execution: the memoized model calls and tool steps
\* bring the function back to where it was; state.data.files is what the
\* last createOrUpdateFiles step that returned an object had returned.
\* The steps after the loop take their own memo.
Replay ==
    /\ pc = "router"
    /\ resume.pc # "none"
    /\ pc' = IF resume.pc \in PostError THEN "get-sandbox-url" ELSE resume.pc
    /\ summary' = resume.summary
    /\ counter' = resume.counter
    /\ loopState' = resume.loopState
    /\ result' = resume.result
    /\ toolCalls' = resume.toolCalls
    /\ fragmentTitleOutput' = resume.fragmentTitleOutput
    /\ responseOutput' = resume.responseOutput
    /\ files' = memo.files
    /\ isError' = IF resume.pc \in PostError
                  THEN IsError(resume.summary, memo.files)
                  ELSE FALSE
    /\ resume' = NoResume
    /\ UNCHANGED <<messages, fragments, sandboxId, sandboxFs, written,
                   previousMessages, agentRuns, sandboxUrl, returned, memo,
                   reexecution, sandboxVars>>
    /\ UNCHANGED extVars

NextRetry ==
    \/ Next
    \/ Crash
    \/ CreateOrUpdateFilesLost
    \/ SaveResultLost
    \/ Replay

\* one stored turn, the user's; crashes are followed by a re-execution
InitRetry == Start(1, TRUE)

SpecRetry == InitRetry /\ [][NextRetry]_vars

----------------------------------------------------------------------------
(* Time *)

\* minutes in one step of the clock
TickMinutes == 10

\* time passes while the job runs; the clock stops once the sandbox has
\* been left alone for SANDBOX_TIMEOUT
Tick ==
    /\ pc \notin {"get-sandbox-id", "done", "failed"}
    /\ sinceConnect < SANDBOX_TIMEOUT
    /\ timeout' = IF timeout > TickMinutes THEN timeout - TickMinutes ELSE 0
    /\ sinceConnect' = sinceConnect + TickMinutes
    /\ UNCHANGED <<pc, messages, fragments, sandboxId, sandboxFs, written,
                   previousMessages, summary, files, counter, loopState,
                   result, toolCalls, fragmentTitleOutput, responseOutput,
                   agentRuns, isError, sandboxUrl, returned, retryVars,
                   sandboxes, connected, refreshed>>
    /\ UNCHANGED extVars

NextTime ==
    \/ Next
    \/ Tick

InitTime == Start(1, FALSE)

SpecTime == InitTime /\ [][NextTime]_vars

----------------------------------------------------------------------------
(* Procedures projects.create and messages.create *)

FREE_USAGE_POINTS == 3
PRO_USAGE_POINTS == 100
GENERATION_COST == 1

\* requests that are followed
MaxRequests == 4

\* RateLimiterPrisma.consume(key, cost): the points are added to the row of
\* the key; the promise is rejected with a RateLimiterRes, which is no
\* Error, when the row then exceeds points, and with an Error when the
\* store fails
consume(consumed, points, cost, storeOk) ==
    IF ~storeOk
    THEN [consumed |-> consumed, outcome |-> "Error"]
    ELSE IF consumed + cost > points
    THEN [consumed |-> consumed + cost, outcome |-> "RateLimiterRes"]
    ELSE [consumed |-> consumed + cost, outcome |-> "resolved"]

\* consumerCredits, with getUsageTracker: userId is what auth() gives
consumerCredits(consumed, userId, hasProAccess, storeOk) ==
    IF userId = "none"
    THEN [consumed |-> consumed, outcome |-> "Error"]
    ELSE consume(consumed,
                 IF hasProAccess THEN PRO_USAGE_POINTS ELSE FREE_USAGE_POINTS,
                 GENERATION_COST, storeOk)

\* mutant: every rejection is reported as a rate limit
creditsErrorCodeAlways(outcome) == "TOO_MANY_REQUESTS"

\* projects.create, the catch around consumerCredits: the code of the
\* TRPCError thrown for a rejection
creditsErrorCode(outcome) ==
    IF outcome = "Error" THEN "BAD_REQUEST" ELSE "TOO_MANY_REQUESTS"

\* the request is answered: one more entry in the history
Respond(proc, code, outcome) ==
    responses' = Append(responses,
                        [proc |-> proc, code |-> code, consume |-> outcome])

\* prisma.project.create with its nested USER message, then inngest.send
CreateProjectAndSend(sendOk) ==
    LET id == Cardinality(projects) + 1
    IN  /\ projects' = projects \cup {id}
        /\ userTurns' = userTurns \cup
               {[id |-> Cardinality(userTurns) + 1, projectId |-> id,
                 role |-> "USER", type |-> "RESULT"]}
        /\ events' = IF sendOk
                     THEN events \cup {[id |-> Cardinality(events) + 1,
                                        name |-> "code-agent/run",
                                        projectId |-> id, consumed |-> TRUE]}
                     ELSE events

\* projects.create behind isAuthed; sendOk = FALSE: inngest.send throws
ProjectsCreate ==
    /\ Len(responses) < MaxRequests
    /\ \E userId \in {"none", "user"}, hasProAccess \in BOOLEAN,
          storeOk \in BOOLEAN, sendOk \in BOOLEAN :
          IF userId = "none"
          THEN /\ Respond("projects.create", "UNAUTHORIZED", "none")
               /\ UNCHANGED <<consumedPoints, projects, userTurns, events>>
          ELSE LET r == consumerCredits(consumedPoints, userId, hasProAccess,
                                        storeOk)
               IN  /\ consumedPoints' = r.consumed
                   /\ IF r.outcome = "resolved"
                      THEN /\ CreateProjectAndSend(sendOk)
                           /\ Respond("projects.create",
                                      IF sendOk THEN "OK"
                                      ELSE "INTERNAL_SERVER_ERROR", r.outcome)
                      ELSE /\ Respond("projects.create",
                                      creditsErrorCode(r.outcome), r.outcome)
                           /\ UNCHANGED <<projects, userTurns, events>>
    /\ UNCHANGED <<jobVars, jobsVars, uiVars, treeVars>>

\* messages.create behind isAuthed: the project is looked up, the USER
\* message is created, the event is sent; consumerCredits is not called
MessagesCreate ==
    /\ Len(responses) < MaxRequests
    /\ \E userId \in {"none", "user"},
          projectId \in 1..(Cardinality(projects) + 1), sendOk \in BOOLEAN :
          IF userId = "none"
          THEN /\ Respond("messages.create", "UNAUTHORIZED", "none")
               /\ UNCHANGED <<userTurns, events>>
          ELSE IF projectId \notin projects
          THEN /\ Respond("messages.create", "NOT_FOUND", "none")
               /\ UNCHANGED <<userTurns, events>>
          ELSE /\ userTurns' = userTurns \cup
                      {[id |-> Cardinality(userTurns) + 1,
                        projectId |-> projectId,
                        role |-> "USER", type |-> "RESULT"]}
               /\ events' = IF sendOk
                            THEN events \cup
                                     {[id |-> Cardinality(events) + 1,
                                       name |-> "code-agent/run",
                                       projectId |-> projectId,
                                       consumed |-> FALSE]}
                            ELSE events
               /\ Respond("messages.create",
                          IF sendOk THEN "OK" ELSE "INTERNAL_SERVER_ERROR",
                          "none")
    /\ UNCHANGED <<consumedPoints, projects>>
    /\ UNCHANGED <<jobVars, jobsVars, uiVars, treeVars>>

NextRequests ==
    \/ ProjectsCreate
    \/ MessagesCreate

InitRequests == Start(1, FALSE)

SpecRequests == InitRequests /\ [][NextRequests]_vars

----------------------------------------------------------------------------
(* Two jobs of codeAgentFunction at once *)

JobIds == {1, 2}

\* agent runs of each job that are followed
MaxJobRuns == 2

\* outputs of one inference: a text or a createOrUpdateFiles call
JobOutputs ==
    {<<TextMessage(s)>> : s \in {<<"ok">>, Marker}}
        \cup {<<ToolCallMessage(WriteCall(<<e>>))>> : e \in FileEntries}

\* mutant: one state object for all jobs
createStateShared(cells) ==
    IF cells = <<>>
    THEN [cells |-> <<[summary |-> <<>>, files |-> EmptyFiles]>>, ref |-> 1]
    ELSE [cells |-> cells, ref |-> 1]

\* createState({summary: "", files: {}}, ...): a new object with new
\* data, ref is the reference the job holds
createState(cells) ==
    [cells |-> Append(cells, [summary |-> <<>>, files |-> EmptyFiles]),
     ref   |-> Len(cells) + 1]

\* the event reaches a job: step get-sandbox-id creates the job's sandbox
\* and get-previous-messages reads the stored turns
JobStart ==
    /\ Len(jobs) + 1 \in JobIds
    /\ boxes' = Append(boxes, TemplateFs)
    /\ jobs' = Append(jobs, [pc |-> "createState", state |-> 0,
                             sandboxId |-> Len(boxes) + 1, written |-> {},
                             counter |-> 0, result |-> NoTool])
    /\ UNCHANGED <<states, stored>>
    /\ UNCHANGED <<jobVars, requestVars, uiVars, treeVars>>

JobCreateState ==
    /\ \E j \in DOMAIN jobs :
          /\ jobs[j].pc = "createState"
          /\ LET r == createState(states)
             IN  /\ states' = r.cells
                 /\ jobs' = [jobs EXCEPT ![j].state = r.ref,
                                         ![j].pc = "router"]
    /\ UNCHANGED <<boxes, stored>>
    /\ UNCHANGED <<jobVars, requestVars, uiVars, treeVars>>

\* the router schedules the code agent: inference, then the onResponse hook
JobOnResponse ==
    /\ \E j \in DOMAIN jobs, output \in JobOutputs :
          LET c == jobs[j].state
              t == ToolCallOf(output)
          IN  /\ jobs[j].pc = "router"
              /\ router(states[c].summary) = "codeAgent"
              /\ jobs[j].counter < MaxJobRuns
              /\ states' = [states EXCEPT
                                ![c].summary = onResponse(output, @)]
              /\ jobs' = IF t.name = "none"
                         THEN [jobs EXCEPT ![j].counter = @ + 1]
                         ELSE [jobs EXCEPT ![j].pc = "invokeTools",
                                           ![j].result = t]
    /\ UNCHANGED <<boxes, stored>>
    /\ UNCHANGED <<jobVars, requestVars, uiVars, treeVars>>

JobCreateOrUpdateFiles ==
    /\ \E j \in DOMAIN jobs :
          LET c == jobs[j].state
              s == jobs[j].sandboxId
              batch == jobs[j].result.files
          IN  /\ jobs[j].pc = "invokeTools"
              /\ \E connectOk \in BOOLEAN, failAt \in 0..Len(batch) :
                    LET r == createOrUpdateFiles(
                                 batch, connectOk, failAt,
                                 ToolState(states[c].files, boxes[s],
                                           jobs[j].written))
                    IN  /\ states' = [states EXCEPT ![c].files = r.files]
                        /\ boxes' = [boxes EXCEPT ![s] = r.fs]
                        /\ jobs' = [jobs EXCEPT ![j].written = r.written,
                                                ![j].counter = @ + 1,
                                                ![j].result = NoTool,
                                                ![j].pc = "router"]
    /\ UNCHANGED stored
    /\ UNCHANGED <<jobVars, requestVars, uiVars, treeVars>>

\* the router schedules no agent: the network returns and save-result
\* stores the fragment of result.state.data.files unless isError
JobSaveResult ==
    /\ \E j \in DOMAIN jobs :
          LET c == jobs[j].state
          IN  /\ jobs[j].pc = "router"
              /\ router(states[c].summary) = "none"
              /\ stored' = IF IsError(states[c].summary, states[c].files)
                           THEN stored
                           ELSE stored \cup {[job |-> j,
                                              files |-> states[c].files]}
              /\ jobs' = [jobs EXCEPT ![j].pc = "done"]
    /\ UNCHANGED <<states, boxes>>
    /\ UNCHANGED <<jobVars, requestVars, uiVars, treeVars>>

NextJobs ==
    \/ JobStart
    \/ JobCreateState
    \/ JobOnResponse
    \/ JobCreateOrUpdateFiles
    \/ JobSaveResult

InitJobs == Start(1, FALSE)

SpecJobs == InitJobs /\ [][NextJobs]_vars

----------------------------------------------------------------------------
(* MessagesContainer, src/src/modules/projects/ui/components *)

\* messages of the project that are followed
MaxUiMessages == 4

\* messages one refetch may add
MaxArrivals == 2

\* row i of messages.getMany: the id of a fragment is the id of its
\* message, 0 is no fragment (null)
UiMessage(i, kind) ==
    [id |-> i,
     role |-> IF kind = "USER" THEN "USER" ELSE "ASSISTANT",
     type |-> IF kind = "ERROR" THEN "ERROR" ELSE "RESULT",
     fragment |-> IF kind = "FRAGMENT" THEN i ELSE 0]

\* the rows are only ever added, in the order of createdAt
Arrivals(n) ==
    UNION {[(n + 1)..(n + k) -> {"USER", "FRAGMENT", "ERROR"}] :
               k \in 0..MaxArrivals}

\* mutant: the effect does not compare with the id it selected last
autoSelectAlways(msgs, ref, active) ==
    LET idx == FindLastIndex({i \in 1..Len(msgs) :
                                  msgs[i].role = "ASSISTANT"})
    IN  IF idx # 0 /\ msgs[idx].fragment # 0
        THEN [active |-> msgs[idx].fragment, ref |-> msgs[idx].fragment]
        ELSE [active |-> active, ref |-> ref]

\* the useEffect on [messages, setActiveFragment]
autoSelect(msgs, ref, active) ==
    LET idx == FindLastIndex({i \in 1..Len(msgs) :
                                  msgs[i].role = "ASSISTANT"})
    IN  IF idx # 0 /\ msgs[idx].fragment # 0 /\ msgs[idx].fragment # ref
        THEN [active |-> msgs[idx].fragment, ref |-> msgs[idx].fragment]
        ELSE [active |-> active, ref |-> ref]

\* the query delivers the messages (on mount and on every refetch), the
\* component renders and the effect runs
Refetch ==
    /\ \E new \in Arrivals(Len(uiMessages)) :
          LET n == Len(uiMessages)
              k == Cardinality(DOMAIN new)
              msgs == [i \in 1..(n + k) |->
                          IF i <= n THEN uiMessages[i]
                          ELSE UiMessage(i, new[i])]
              r == autoSelect(msgs, lastAssistantMessageRef, activeFragment)
          IN  /\ n + k <= MaxUiMessages
              /\ uiMessages' = msgs
              /\ activeFragment' = r.active
              /\ lastAssistantMessageRef' = r.ref
    /\ uiEvent' = "refetch"
    /\ UNCHANGED <<jobVars, requestVars, jobsVars, treeVars>>

\* onFragmentClick of the card of a message that has a fragment
Click ==
    /\ \E i \in DOMAIN uiMessages :
          /\ uiMessages[i].fragment # 0
          /\ activeFragment' = uiMessages[i].fragment
    /\ uiEvent' = "click"
    /\ UNCHANGED <<uiMessages, lastAssistantMessageRef>>
    /\ UNCHANGED <<jobVars, requestVars, jobsVars, treeVars>>

NextUi ==
    \/ Refetch
    \/ Click

InitUi == Start(1, FALSE)

SpecUi == InitUi /\ [][NextUi]_vars

----------------------------------------------------------------------------
(* convertFilesToTreeItems, src/src/lib/utils.ts *)

\* keys of the files map that are followed
MaxTreeFiles == 3

\* paths a files map may hold; no name is a number, so the keys of a
\* TreeNode are listed in the order they were added
TreePaths == {"src/index.ts", "src/lib/utils.ts", "README.md",
              "app/page.tsx", "a", "a/b", "a/b/c", "b"}

\* the characters of the paths, in the order of their UTF-16 code units
Alphabet ==
    "-./0123456789ABCDEFGHIJKLMNOPQRSTUVWXYZ_abcdefghijklmnopqrstuvwxyz"

CodeUnit(c) == CHOOSE i \in 1..Len(Alphabet) : SubSeq(Alphabet, i, i) = c

\* a < b as the default comparison of Array.prototype.sort has it
RECURSIVE LessFrom(_, _, _)
LessFrom(a, b, i) ==
    IF i > Len(a) THEN i <= Len(b)
    ELSE IF i > Len(b) THEN FALSE
    ELSE LET ca == CodeUnit(SubSeq(a, i, i))
             cb == CodeUnit(SubSeq(b, i, i))
         IN  IF ca < cb THEN TRUE
             ELSE IF ca > cb THEN FALSE
             ELSE LessFrom(a, b, i + 1)

\* Object.keys(files).sort()
RECURSIVE sort(_)
sort(keys) ==
    IF keys = {} THEN <<>>
    ELSE LET m == CHOOSE x \in keys :
                      \A y \in keys \ {x} : LessFrom(x, y, 1)
         IN  <<m>> \o sort(keys \ {m})

\* filePath.split("/")
RECURSIVE split(_, _, _, _)
split(s, i, part, parts) ==
    IF i > Len(s) THEN Append(parts, part)
    ELSE IF SubSeq(s, i, i) = "/"
    THEN split(s, i + 1, "", Append(parts, part))
    ELSE split(s, i + 1, part \o SubSeq(s, i, i), parts)

\* a TreeNode is the sequence of its entries in the order of Object.entries;
\* the value of an entry is null (file) or a TreeNode
FileEntry(key) == [key |-> key, file |-> TRUE, node |-> <<>>]
DirEntry(key, node) == [key |-> key, file |-> FALSE, node |-> node]

IndexOfKey(node, key) ==
    FindLastIndex({i \in 1..Len(node) : node[i].key = key})

\* current[key] = value: an existing key keeps its place
SetEntry(node, entry) ==
    LET idx == IndexOfKey(node, entry.key)
    IN  IF idx = 0 THEN Append(node, entry)
        ELSE [node EXCEPT ![idx] = entry]

\* phase 1, one file path: if (!current[part]) current[part] = {} for
\* every part but the last, current[fileName] = null for the last
RECURSIVE insertPath(_, _, _)
insertPath(current, parts, i) ==
    IF i = Len(parts)
    THEN SetEntry(current, FileEntry(parts[i]))
    ELSE LET idx == IndexOfKey(current, parts[i])
             child == IF idx = 0 \/ current[idx].file
                      THEN <<>> ELSE current[idx].node
         IN  SetEntry(current,
                      DirEntry(parts[i], insertPath(child, parts, i + 1)))

\* phase 1, the loop over sortedPaths
RECURSIVE buildTree(_, _, _)
buildTree(sortedPaths, i, tree) ==
    IF i > Len(sortedPaths) THEN tree
    ELSE buildTree(sortedPaths, i + 1,
                   insertPath(tree, split(sortedPaths[i], 1, "", <<>>), 1))

\* a TreeItem: the string of a file, or the array [name, ...items]
Leaf(name) == [name |-> name, array |-> FALSE, items |-> <<>>]
Dir(name, items) == [name |-> name, array |-> TRUE, items |-> items]

\* phase 2.  The result is a TreeItem[] (array) or one TreeItem (item).
RECURSIVE convertNode(_, _)
RECURSIVE convertEntries(_, _, _)
convertEntries(entries, i, children) ==
    IF i > Len(entries) THEN children
    ELSE LET e == entries[i]
             subTree == convertNode(e.node, e.key)
         IN  convertEntries(entries, i + 1,
                 Append(children,
                        IF e.file THEN Leaf(e.key)
                        ELSE IF subTree.array THEN Dir(e.key, subTree.items)
                        ELSE Dir(e.key, <<subTree.item>>)))

convertNode(node, name) ==
    IF Len(node) = 0
    THEN [array |-> FALSE, items |-> <<>>, item |-> Leaf(name)]
    ELSE [array |-> TRUE, items |-> convertEntries(node, 1, <<>>),
          item |-> Leaf("")]

\* keys: the keys of the files map, whose contents are not read
convertFilesToTreeItems(keys) ==
    LET converted == convertNode(buildTree(sort(keys), 1, <<>>), "")
    IN  IF converted.array THEN converted.items ELSE <<converted.item>>

\* FileExplorer, treeData
Convert ==
    /\ ~treeItems.called
    /\ treeItems' = [called |-> TRUE,
                     items |-> convertFilesToTreeItems(treeFiles)]
    /\ UNCHANGED treeFiles
    /\ UNCHANGED <<jobVars, requestVars, jobsVars, uiVars>>

NextTree == Convert

InitTree ==
    /\ StartJob(1, FALSE)
    /\ NoRequests
    /\ NoJobs
    /\ NoUi
    /\ treeFiles \in {fs \in SUBSET TreePaths : Cardinality(fs) <= MaxTreeFiles}
    /\ treeItems = [called |-> FALSE, items |-> <<>>]

SpecTree == InitTree /\ [][NextTree]_vars

----------------------------------------------------------------------------
(* Properties *)

\* C1: a job that ran to completion appended exactly one turn, of role
\* ASSISTANT, whose type is ERROR iff summary or files was empty when the
\* loop ended, and RESULT otherwise.
C1_OneTurnPerJob ==
    pc \in {"return", "done"} =>
        /\ Cardinality(JobTurns) = 1
        /\ \A m \in JobTurns :
              /\ m.role = "ASSISTANT"
              /\ m.type \in {"ERROR", "RESULT"}
              /\ m.type = "ERROR" <=> (summary = <<>> \/ DOMAIN files = {})

\* completion marker on iteration 1, no file written: the turn is ERROR
C1_Witness ==
    /\ pc = "done"
    /\ counter = 1
    /\ loopState = "CONVERGED"
    /\ DOMAIN files = {}
    /\ \E m \in JobTurns : m.type = "ERROR"

\* C2: the job created a Fragment iff its turn is a RESULT: every Fragment
\* of the job belongs to a RESULT turn of the job, every RESULT turn of the
\* job has exactly one Fragment, an ERROR turn has none.
C2_FragmentIffResult ==
    /\ \A f \in JobFragments :
          \E m \in JobTurns : /\ m.id = f.messageId
                              /\ m.role = "ASSISTANT"
                              /\ m.type = "RESULT"
    /\ \A m \in JobTurns :
          Cardinality({f \in fragments : f.messageId = m.id})
              = IF m.type = "RESULT" THEN 1 ELSE 0

C2_Witness ==
    /\ pc = "done"
    /\ \E m \in JobTurns : /\ m.type = "RESULT"
                           /\ \E f \in JobFragments : f.messageId = m.id

\* C3: the network never completes more than maxIter agent runs, and no
\* agent run is under way once maxIter runs have completed.
C3_BoundedLoop ==
    /\ counter <= maxIter
    /\ pc \in {"infer", "onResponse", "invokeTools"} => counter < maxIter

\* the agent never emitted the marker: the loop ended after maxIter runs
C3_Witness ==
    /\ loopState = "EXHAUSTED"
    /\ counter = maxIter
    /\ pc = "done"

\* C4: the loop ends EXHAUSTED only with an empty summary: when the
\* summary is non-empty after the loop, also when it was set by the
\* maxIter-th agent run, the loop ended CONVERGED.
C4_SummaryCheckedFirst ==
    loopState # "RUNNING" =>
        (loopState = "CONVERGED" <=> summary # <<>>)

\* the marker arrived exactly on the last allowed iteration
C4_Witness ==
    /\ loopState = "CONVERGED"
    /\ counter = maxIter

\* C5: no agent run starts while summary is non-empty, and after the loop
\* has converged summary, files and the number of agent runs stay as they
\* are.
C5_NoRunAfterSummary ==
    [][/\ (pc = "router" /\ pc' = "infer") => summary = <<>>
       /\ loopState = "CONVERGED" =>
              /\ summary' = summary
              /\ files' = files
              /\ counter' = counter]_vars

C5_Witness ==
    /\ loopState = "CONVERGED"
    /\ pc = "done"
    /\ DOMAIN files # {}
    /\ counter < maxIter

\* C6: summary changes only in the onResponse hook, on a result whose
\* extracted assistant text contains the marker, and becomes that full
\* text.
C6_SummaryOnlyFromMarker ==
    [][summary' # summary =>
          /\ pc = "onResponse"
          /\ lastAgentResponse(result).type = "string"
          /\ Includes(lastAgentResponse(result).str, Marker)
          /\ summary' = lastAgentResponse(result).str]_vars

\* a summary that is the whole text, longer than the marker itself
C6_Witness ==
    /\ summary # <<>>
    /\ Len(summary) > Len(Marker)
    /\ pc = "invokeTools"

\* the 5 most recent of the given turns, oldest first, in agent format
MostRecentOldestFirst(rows) ==
    LET recent == findMany(rows, "desc", take)
    IN  [i \in 1..Len(recent) |->
            LET m == recent[Len(recent) + 1 - i]
            IN  [type |-> "text",
                 role |-> IF m.role = "ASSISTANT" THEN "assistant" ELSE "user",
                 content |-> m.content]]

\* C7: get-previous-messages returns the (up to) 5 turns of the project
\* with the greatest createdAt, oldest first.
C7_MostRecentTurns ==
    pc = "createState" => previousMessages = MostRecentOldestFirst(messages)

\* C8: the title agent and the response agent are invoked only when the
\* loop ended with a non-empty summary.
C8_PostAgentsOnlyWithSummary ==
    agentRuns # {} => summary # <<>>

\* C9: every entry of Shared Run State files was successfully written to
\* the sandbox with the same content.
C9_FilesWereWritten ==
    \A p \in DOMAIN files : <<p, files[p]>> \in written

\* a batch failed part-way and the state map holds entries
C9_Witness ==
    /\ DOMAIN files # {}
    /\ \E i \in DOMAIN toolCalls :
          /\ toolCalls[i].name = "createOrUpdateFiles"
          /\ toolCalls[i].failed

\* C10: the result of a createOrUpdateFiles call in which a sandbox
\* operation failed is an error string.
C10_FailedBatchReturnsError ==
    \A i \in DOMAIN toolCalls :
        (toolCalls[i].name = "createOrUpdateFiles" /\ toolCalls[i].failed) =>
            /\ toolCalls[i].ret.type = "string"
            /\ Len(toolCalls[i].ret.str) > 0
            /\ toolCalls[i].ret.str[1] = "Error: "

\* C11: over the createOrUpdateFiles calls of a job no path ever leaves
\* Shared Run State files, and each path holds the content of the last
\* successful write of that path to the sandbox.
C11_FilesGrowLastWriteWins ==
    [][/\ \A p \in DOMAIN files : p \in DOMAIN files'
       /\ \A p \in DOMAIN files' :
             /\ p \in DOMAIN sandboxFs'
             /\ files'[p] = sandboxFs'[p]]_vars

\* a path was written twice, with different contents
C11_Witness ==
    \E p \in DOMAIN files :
        /\ files[p] = "v2"
        /\ <<p, "v1">> \in written
        /\ <<p, "v2">> \in written

\* C13: readFiles is all-or-error and does not raise: when every read
\* succeeds the result is the JSON array of one {path, content} per
\* requested path in request order, otherwise it is one error string.
C13_ReadFilesAllOrError ==
    [][(pc = "invokeTools" /\ ToolCallOf(result).name = "readFiles") =>
          LET paths == ToolCallOf(result).paths
              call == toolCalls'[1]
          IN  /\ Len(toolCalls') = 1
              /\ call.name = "readFiles"
              /\ call.ret.type = "string"
              /\ pc' = "router"
              /\ IF call.failed
                 THEN call.ret.str = <<"Error: ", "sandbox">>
                 ELSE /\ \A i \in 1..Len(paths) : paths[i] \in DOMAIN sandboxFs
                      /\ call.ret.str = JsonStringify(
                             [i \in 1..Len(paths) |->
                                 [path |-> paths[i],
                                  content |-> sandboxFs[paths[i]]]])
              /\ (\E i \in 1..Len(paths) : paths[i] \notin DOMAIN sandboxFs)
                     => call.failed]_vars

\* a batch with a path that does not exist, next to one that does
C13_Witness ==
    /\ toolCalls # <<>>
    /\ toolCalls[1].name = "readFiles"
    /\ toolCalls[1].failed
    /\ DOMAIN sandboxFs # {}
    /\ \E p \in Paths : p \notin DOMAIN sandboxFs

\* C14: a failing terminal command does not raise and does not abort the
\* job: the tool returns a string containing the stdout and the stderr
\* captured before the failure and the loop goes on; a successful command
\* returns exactly its stdout.
C14_TerminalReturnsBuffers ==
    \A i \in DOMAIN toolCalls :
        toolCalls[i].name = "terminal" =>
            /\ toolCalls[i].ret.type = "string"
            /\ pc \in {"router", "infer"}
            /\ IF toolCalls[i].failed
               THEN /\ Includes(toolCalls[i].ret.str, toolCalls[i].stdout)
                    /\ Includes(toolCalls[i].ret.str, toolCalls[i].stderr)
                    /\ toolCalls[i].ret.str # toolCalls[i].stdout
               ELSE toolCalls[i].ret.str = toolCalls[i].stdout

\* a command failed after it had written to stdout and to stderr, and the
\* agent runs again
C14_Witness ==
    /\ pc = "infer"
    /\ toolCalls # <<>>
    /\ toolCalls[1].name = "terminal"
    /\ toolCalls[1].failed
    /\ toolCalls[1].stdout # <<>>
    /\ toolCalls[1].stderr # <<>>

\* C15: the files map stored in the job's Fragment is, entry for entry,
\* the Shared Run State files map the loop ended with.
C15_FragmentFilesAreStateFiles ==
    \A f \in JobFragments :
        /\ loopState # "RUNNING"
        /\ DOMAIN f.files = DOMAIN files
        /\ \A p \in DOMAIN files : f.files[p] = files[p]

\* a Fragment with two files
C15_Witness ==
    /\ pc = "done"
    /\ \E f \in JobFragments : DOMAIN f.files = Paths

\* C16: the job returns { url, title, files, summary } on both branches,
\* with the resolved sandbox URL and the files and summary of Shared Run
\* State as the loop left them.
C16_ReturnsDescriptor ==
    pc = "done" =>
        /\ returned.type = "object"
        /\ returned.url = sandboxUrl
        /\ returned.url = <<"https://", "3000-" \o sandboxId>>
        /\ returned.files = files
        /\ returned.summary = summary

\* exhausted loop: ERROR turn, empty summary, files returned all the same
C16_Witness ==
    /\ pc = "done"
    /\ loopState = "EXHAUSTED"
    /\ DOMAIN returned.files # {}
    /\ returned.summary = <<>>
    /\ \E m \in JobTurns : m.type = "ERROR"

\* the text the claim expects of extractTextContent
ExpectedTextContent(output, fallback) ==
    IF output = <<>> THEN fallback
    ELSE IF output[1].type # "text" THEN fallback
    ELSE IF output[1].content.kind = "array"
    THEN Join([i \in 1..Len(output[1].content.segs) |->
                  output[1].content.segs[i].text])
    ELSE output[1].content.str

\* C17: for the outputs of the two post-processing agents
\* extractTextContent does not fail and returns the text of the first
\* message (segments concatenated), or the fallback when the output is
\* empty or not a text message.
C17_ExtractFallsBack ==
    pc = "save-result" =>
        /\ ~extractTextContent(responseOutput, ResponseFallback).threw
        /\ extractTextContent(responseOutput, ResponseFallback).value
               = ExpectedTextContent(responseOutput, ResponseFallback)
        /\ ~extractTextContent(fragmentTitleOutput, TitleFallback).threw
        /\ extractTextContent(fragmentTitleOutput, TitleFallback).value
               = ExpectedTextContent(fragmentTitleOutput, TitleFallback)


\* the whole batch applied to a files map and a sandbox filesystem
Applied(batch, f, fs) ==
    createOrUpdateFiles(batch, TRUE, 0, ToolState(f, fs, {}))

\* C12: applying a batch that was applied already changes nothing: after
\* a successful createOrUpdateFiles call the same batch gives the same
\* files map and sandbox content again, and the whole batch applied after
\* a crash that had written a part of it gives what the batch applied
\* once gives.
C12_MergesIdempotent ==
    [][(pc = "invokeTools"
          /\ ToolCallOf(result).name = "createOrUpdateFiles") =>
          LET batch == ToolCallOf(result).files
          IN  /\ (pc' = "router" /\ ~toolCalls'[1].failed) =>
                    /\ Applied(batch, files', sandboxFs').files = files'
                    /\ Applied(batch, files', sandboxFs').fs = sandboxFs'
              /\ pc' = "get-sandbox-id" =>
                    /\ Applied(batch, files, sandboxFs').files
                           = Applied(batch, files, sandboxFs).files
                    /\ Applied(batch, files, sandboxFs').fs
                           = Applied(batch, files, sandboxFs).fs]_vars

\* a re-execution is about to run a batch again whose writes are in the
\* sandbox while the files map does not hold them
C12_Witness ==
    /\ pc = "invokeTools"
    /\ ToolCallOf(result).name = "createOrUpdateFiles"
    /\ LET batch == ToolCallOf(result).files
       IN  /\ Len(batch) = MaxBatch
           /\ \A i \in 1..Len(batch) :
                  /\ <<batch[i].path, batch[i].content>> \in written
                  /\ batch[i].path \notin DOMAIN files

\* C18: once step get-sandbox-id has completed, whatever crashes and
\* re-executions follow, no further sandbox is created, the memoized id
\* stays, the function holds no other id, and every getSandbox of the
\* job is called with that id.
C18_OneSandbox ==
    [][/\ "get-sandbox-id" \in memo.done =>
              /\ sandboxes' = sandboxes
              /\ memo'.sandboxId = memo.sandboxId
              /\ "get-sandbox-id" \in memo'.done
       /\ sandboxId' \in {"none", memo'.sandboxId}
       /\ connected' \subseteq {memo'.sandboxId}
       /\ sandboxUrl' # <<>> =>
              sandboxUrl' = <<"https://", "3000-" \o memo'.sandboxId>>]_vars

\* after a crash in save-result the job was executed again and ended:
\* one sandbox, used by the tool calls before and after the crash
C18_Witness ==
    /\ pc = "done"
    /\ Cardinality(JobTurns) > 1
    /\ sandboxes = {memo.sandboxId}
    /\ connected = {memo.sandboxId}
    /\ sandboxId = memo.sandboxId

\* C19: a job that ended, whatever crashes it went through, has appended
\* exactly one ASSISTANT turn and at most one Fragment.
C19_SavedOnce ==
    pc = "done" =>
        /\ Cardinality(JobTurns) = 1
        /\ Cardinality(JobFragments) <= 1

\* whole minutes of idle time left after m minutes without getSandbox
IdleLeft(m) == IF m < SANDBOX_TIMEOUT THEN SANDBOX_TIMEOUT - m ELSE 0

\* C20: the sandbox of the job has SANDBOX_TIMEOUT minutes minus the time
\* since its creation or its last successful getSandbox left, so it has
\* not expired while that time is less than SANDBOX_TIMEOUT.
C20_ExpiryRefreshed ==
    sandboxId # "none" =>
        /\ timeout = IdleLeft(sinceConnect)
        /\ sinceConnect < SANDBOX_TIMEOUT => timeout > 0

\* the job ended after a getSandbox had reset an expiry that had run down
C20_Witness ==
    /\ pc = "done"
    /\ refreshed
    /\ timeout > 0


\* index of the latest assistant message of an output that carries text,
\* 0 if there is none
LatestTextIndex(output) ==
    FindLastIndex({i \in 1..Len(output) :
                      /\ output[i].role = "assistant"
                      /\ output[i].type = "text"
                      /\ output[i].content.kind \in {"string", "array"}})

\* the text of a text message
TextOf(message) ==
    IF message.content.kind = "string"
    THEN message.content.str
    ELSE Join([i \in 1..Len(message.content.segs) |->
                  message.content.segs[i].text])

\* C24: when the latest assistant text of a result contains the marker,
\* the onResponse hook sets summary to that text, whatever follows the
\* text in the output; lastAgentResponse is undefined only for an output
\* without assistant text.
C24_LatestAssistantText ==
    [][pc = "onResponse" =>
          LET i == LatestTextIndex(result)
          IN  /\ (i # 0 /\ Includes(TextOf(result[i]), Marker)) =>
                     summary' = TextOf(result[i])
              /\ (i # 0 /\ TextOf(result[i]) # <<>>) =>
                     lastAgentResponse(result).type = "string"]_vars

\* C25: a createOrUpdateFiles call that failed leaves every entry that
\* files held before the batch as it was, merges the files of the batch
\* before the failing one and no other, and leaves the writes made before
\* the failure in the sandbox.
C25_FailedBatchNoRollback ==
    [][(/\ pc = "invokeTools"
        /\ ToolCallOf(result).name = "createOrUpdateFiles"
        /\ pc' = "router"
        /\ toolCalls'[1].failed) =>
          LET batch == ToolCallOf(result).files
          IN  /\ \A p \in DOMAIN files :
                     /\ p \in DOMAIN files'
                     /\ files'[p] = files[p]
              /\ \E k \in 0..Len(batch) :
                     LET done == IF k = 0 THEN <<>> ELSE SubSeq(batch, 1, k - 1)
                     IN  /\ sandboxFs' = Applied(done, files, sandboxFs).fs
                         /\ DOMAIN files' = DOMAIN files
                                \cup {done[i].path : i \in 1..Len(done)}]_vars

\* C26: when an execution of the job is interrupted, the files map that
\* the re-execution rebuilds from the memoized step results is the files
\* map the interrupted execution held.
C26_ReplayRebuildsState ==
    [][(resume.pc = "none" /\ resume'.pc # "none") => memo.files = files]_vars

\* C27: on the success branch the title of the returned descriptor is the
\* title stored in the Fragment of the job.
C27_ReturnedTitleIsStored ==
    (pc = "done" /\ ~isError) =>
        \A f \in JobFragments : returned.title = f.title


\* C21: every code-agent/run event was sent by a request in which
\* consumerCredits had succeeded.
C21_EnqueueAfterConsume ==
    \A e \in events : e.consumed

\* C22: projects.create answers TOO_MANY_REQUESTS exactly when the consume
\* was rejected because the points of the user are exhausted, and then no
\* project, no USER message and no event is created; an Error of
\* consumerCredits is answered otherwise.
C22_QuotaExhausted ==
    [][(/\ Len(responses') = Len(responses) + 1
        /\ responses'[Len(responses')].proc = "projects.create") =>
          LET last == responses'[Len(responses')]
          IN  /\ last.consume = "RateLimiterRes" =>
                     /\ last.code = "TOO_MANY_REQUESTS"
                     /\ consumedPoints' > FREE_USAGE_POINTS
                     /\ UNCHANGED <<projects, userTurns, events>>
              /\ last.code = "TOO_MANY_REQUESTS" =>
                     last.consume = "RateLimiterRes"
              /\ last.consume = "Error" =>
                     /\ last.code = "BAD_REQUEST"
                     /\ UNCHANGED <<projects, userTurns, events>>]_vars

\* three projects were created, a fourth request was refused
C22_Witness ==
    /\ Cardinality(projects) = FREE_USAGE_POINTS
    /\ \E i \in DOMAIN responses :
          /\ responses[i].proc = "projects.create"
          /\ responses[i].code = "TOO_MANY_REQUESTS"


\* C23: a step of one job leaves the summary and the files of the other
\* job's state as they were, and every stored fragment holds only files
\* that its own job wrote.
C23_JobsShareNoState ==
    [][/\ \A k \in DOMAIN jobs :
            (jobs'[k] = jobs[k] /\ jobs[k].state # 0) =>
                states'[jobs[k].state] = states[jobs[k].state]
       /\ \A f \in stored' : \A p \in DOMAIN f.files :
            <<p, f.files[p]>> \in jobs'[f.job].written]_vars

\* the second job has stored its fragment while the first, which has
\* written other files, is inside a createOrUpdateFiles call
C23_Witness ==
    /\ Len(jobs) = 2
    /\ jobs[1].pc = "invokeTools"
    /\ states[jobs[1].state].files # EmptyFiles
    /\ \E f \in stored :
          /\ f.job = 2
          /\ f.files # states[jobs[1].state].files


\* the last ASSISTANT message of msgs, 0 when there is none
LastAssistant(msgs) ==
    FindLastIndex({i \in 1..Len(msgs) : msgs[i].role = "ASSISTANT"})

C29_DocumentationExample ==
    (/\ treeItems.called
     /\ treeFiles = {"src/index.ts", "src/lib/utils.ts", "README.md"}) =>
        treeItems.items =
            <<Dir("src", <<Leaf("index.ts"),
                           Dir("lib", <<Leaf("utils.ts")>>)>>),
              Leaf("README.md")>>

\* the paths of the file leaves of a TreeItem[], each with the directory
\* names above it
RECURSIVE LeafPaths(_, _, _)
LeafPaths(items, i, prefix) ==
    IF i > Len(items) THEN <<>>
    ELSE (IF items[i].array
          THEN LeafPaths(items[i].items, 1, prefix \o items[i].name \o "/")
          ELSE <<prefix \o items[i].name>>)
         \o LeafPaths(items, i + 1, prefix)

\* C30: the leaves of the returned tree are the keys of the files map,
\* one leaf for each key, and the empty map gives the empty array.
C30_OneLeafPerKey ==
    treeItems.called =>
        LET leaves == LeafPaths(treeItems.items, 1, "")
        IN  /\ Len(leaves) = Cardinality(treeFiles)
            /\ {leaves[i] : i \in DOMAIN leaves} = treeFiles
            /\ treeFiles = {} => treeItems.items = <<>>

====
